---- MODULE Spec2Model ----
(***************************************************************************)
(* Model of the Socket.IO room logic of src/index.js (lines 173-279): the  *)
(* Room and Remark collections, the per-connection closure variables       *)
(* currentRoom / currentUser / currentRole, the Socket.IO room membership  *)
(* of every socket, and the async event handlers, which interleave at      *)
(* every await.                                                            *)
(*                                                                         *)
(* Granularity.  A handler runs without interruption between two awaits    *)
(* (one JavaScript thread).  Each awaited store call takes effect in the   *)
(* store at some moment after it was issued, and the handler resumes at    *)
(* some moment after that.  Where the code that follows an await touches   *)
(* only the handler's locals (after findOne in join, languageChange and    *)
(* codeChange) the store call and the resumption are one step; where it    *)
(* reads shared state (socket rooms, the closure variables) they are two.  *)
(*                                                                         *)
(* Mongoose.  save() of a new document is an insert, which the unique      *)
(* index on roomId rejects when the room exists; save() of a loaded        *)
(* document sends only the modified paths: users.push(x) becomes           *)
(* $push {users: x}, an assignment of a different value becomes $set, an   *)
(* assignment of the value already loaded marks nothing modified.          *)
(* createdAt and _id of a Remark are not modelled.                         *)
(***************************************************************************)
EXTENDS Integers, Sequences, FiniteSets, TLC

\* ------------------------------------------------------------------ bounds
MaxEvents == 3
MaxEventsOneRoom == 4
MaxEventsShort == 2
MaxHandlers == 2

\* ------------------------------------------------------------------ inputs
Conns == {"A", "B"}
RoomIds == {"R1", "R2"}
UserNames == {"alice", "bob"}
Roles == {"Admin", "Developer", "Tester"}
Codes == {"print(1)", "x=2"}
Languages == {"python"}
Texts == {"check this"}
Lines == {1}

Handlers == 1..MaxHandlers

\* JavaScript null, and the test `if (v)` on a string or null
Null == "null"
Truthy(v) == v \notin {Null, ""}

\* ------------------------------------------------------------------ state
VARIABLES
    rooms,        \* Room collection: roomId -> document, or NoRoom
    remarks,      \* Remark collection, in insertion order
    currentRoom,  \* per connection closure variable
    currentUser,  \* per connection closure variable
    currentRole,  \* per connection closure variable
    sockRooms,    \* Socket.IO rooms each socket is in
    connected,    \* the socket is still connected
    handlers,     \* the async handlers in flight
    emitted,      \* what the last step emitted, in order
    nEvents,      \* client events received so far
    lastEvent,    \* the last client event received
    net,          \* per room and userName: join events minus exit events
    held,         \* per connection: the code its client holds, that is its
                  \* last accepted submission or the last codeUpdate sent to it
    lastWriter,   \* per room: the connection whose codeChange last changed its code
    concurrentEdit \* a codeChange was accepted while the codeChange of another
                  \* connection for the same room was in flight

vars == <<rooms, remarks, currentRoom, currentUser, currentRole, sockRooms,
          connected, handlers, emitted, nEvents, lastEvent, net, held,
          lastWriter, concurrentEdit>>

\* ------------------------------------------------------------------ documents
NoRoom == [exists |-> FALSE, users |-> <<>>, code |-> "", language |-> ""]

\* new Room({roomId, users}) with the schema defaults of code and language
NewRoom(users) ==
    [exists |-> TRUE, users |-> users, code |-> "", language |-> "javascript"]

NoRemark ==
    [roomId |-> Null, userName |-> Null, role |-> Null, text |-> "",
     line |-> 0, resolved |-> FALSE]

\* new Remark({roomId, userName, role, text, line}); resolved defaults to false
NewRemark(roomId, userName, role, text, line) ==
    [roomId |-> roomId, userName |-> userName, role |-> role, text |-> text,
     line |-> line, resolved |-> FALSE]

\* Array.prototype.includes
Includes(s, x) == \E i \in 1..Len(s) : s[i] = x

RECURSIVE Pull(_, _)
\* MongoDB $pull: every element equal to x is removed
Pull(s, x) ==
    IF s = <<>> THEN <<>>
    ELSE IF Head(s) = x THEN Pull(Tail(s), x)
    ELSE <<Head(s)>> \o Pull(Tail(s), x)

NoDuplicates(s) == \A i, j \in 1..Len(s) : s[i] = s[j] => i = j

Range(s) == {s[i] : i \in 1..Len(s)}

\* ------------------------------------------------------------------ emissions
Msg(ev, to, users, val, remark) ==
    [event |-> ev, to |-> to, users |-> users, val |-> val, remark |-> remark]

\* sockets of a Socket.IO room
Members(r) == {c \in Conns : r \in sockRooms[c]}

\* variant of Others for C6: io.to(r) in place of socket.to(r)
EveryoneIn(r, c) == Members(r)
\* socket.to(r): the sockets of the room, the sender left out (lines 224, 235)
Others(r, c) == Members(r) \ {c}

\* socket.emit reaches the socket only while it is connected
Self(c) == IF connected[c] THEN {c} ELSE {}

\* what each client holds once the messages msgs are delivered: the code of
\* the last codeUpdate addressed to it (lines 214, 235), or what it held
Delivered(msgs) ==
    [c \in Conns |->
        LET got == {i \in 1..Len(msgs) : msgs[i].event = "codeUpdate" /\ c \in msgs[i].to}
        IN IF got = {} THEN held[c]
           ELSE msgs[CHOOSE i \in got : \A j \in got : j <= i].val]

\* ------------------------------------------------------------------ handlers
IdleHandler ==
    [pc |-> "idle", conn |-> Null, roomId |-> Null, userName |-> Null,
     val |-> "", room |-> NoRoom, isNew |-> FALSE, dirty |-> FALSE,
     remark |-> NoRemark,
     home |-> Null]   \* the session's currentRoom when the event arrived

Idle(h) == handlers[h].pc = "idle"
Quiescent == \A h \in Handlers : Idle(h)

\* the slot a new handler takes
FreeSlot == CHOOSE h \in Handlers : Idle(h) /\ \A g \in Handlers : Idle(g) => h <= g
HasSlot == \E h \in Handlers : Idle(h)
CanStart == HasSlot

Start(rec) == handlers' = [handlers EXCEPT ![FreeSlot] = rec]
Finish(h) == handlers' = [handlers EXCEPT ![h] = IdleHandler]
Goto(h, rec) == handlers' = [handlers EXCEPT ![h] = rec]

NoEvent == [name |-> "none", conn |-> Null, roomId |-> Null]
\* an event is received
Received(name, c, roomId) ==
    /\ nEvents' = nEvents + 1
    /\ lastEvent' = [name |-> name, conn |-> c, roomId |-> roomId]

\* variant of MayEdit for C4: a gate that lets Tester through
MayEditAnyRole(role) == role \in {"Developer", "Admin", "Tester"}
\* lines 219 and 230: the role gate of languageChange and codeChange
MayEdit(role) == role = "Developer" \/ role = "Admin"

\* variant of MayRemark for C5: a gate that lets Developer through
MayRemarkOrDevelop(role) == role = "Tester" \/ role = "Developer"
\* line 241: the role gate of remark:add
MayRemark(role) == role = "Tester"

\* ------------------------------------------------------------------ initial state
Init ==
    /\ rooms = [r \in RoomIds |-> NoRoom]
    /\ remarks = <<>>
    /\ currentRoom = [c \in Conns |-> Null]
    /\ currentUser = [c \in Conns |-> Null]
    /\ currentRole = [c \in Conns |-> Null]
    /\ sockRooms = [c \in Conns |-> {}]
    /\ connected = [c \in Conns |-> TRUE]
    /\ handlers = [h \in Handlers |-> IdleHandler]
    /\ emitted = <<>>
    /\ nEvents = 0
    /\ lastEvent = NoEvent
    /\ net = [r \in RoomIds |-> [u \in UserNames |-> 0]]
    /\ held = [c \in Conns |-> Null]
    /\ lastWriter = [r \in RoomIds |-> Null]
    /\ concurrentEdit = FALSE

\* ------------------------------------------------------------------ join
\* lines 202-208: the synchronous part of the join handler, up to the findOne
JoinStart(c, roomId, userName, role) ==
    /\ connected[c] /\ CanStart
    /\ currentRoom' = [currentRoom EXCEPT ![c] = roomId]
    /\ currentUser' = [currentUser EXCEPT ![c] = userName]
    /\ currentRole' = [currentRole EXCEPT ![c] = role]
    /\ sockRooms' = [sockRooms EXCEPT ![c] = @ \cup {roomId}]
    /\ Start([IdleHandler EXCEPT !.pc = "join_find", !.conn = c,
                                 !.roomId = roomId, !.userName = userName])
    /\ Received("join", c, roomId)
    /\ net' = [net EXCEPT ![roomId][userName] = @ + 1]
    /\ emitted' = <<>>
    /\ UNCHANGED <<rooms, remarks, connected, held, lastWriter, concurrentEdit>>

\* lines 209-210 applied to the document findOne returned
JoinedRoom(found, userName) ==
    IF ~found.exists THEN NewRoom(<<userName>>)
    ELSE IF ~Includes(found.users, userName)
         THEN [found EXCEPT !.users = Append(@, userName)]
         ELSE found

\* lines 208-211: findOne answers, the handler builds its document and calls save
JoinFind(h) ==
    LET t == handlers[h]
        found == rooms[t.roomId]
    IN
    /\ t.pc = "join_find"
    /\ Goto(h, [t EXCEPT !.pc = "join_save",
                         !.room = JoinedRoom(found, t.userName),
                         !.isNew = ~found.exists,
                         !.dirty = found.exists /\ ~Includes(found.users, t.userName)])
    /\ emitted' = <<>>
    /\ UNCHANGED <<rooms, remarks, currentRoom, currentUser, currentRole,
                   sockRooms, connected, nEvents, lastEvent, net, held,
                   lastWriter, concurrentEdit>>

\* the unique index on roomId (line 185) admits the insert of a new Room
InsertAllowed(r) == ~rooms[r].exists

\* line 211, in the store: insert of a new document ($isNew), $push of the
\* pushed userName, or nothing when the document was not modified
JoinSave(h) ==
    LET t == handlers[h] IN
    /\ t.pc = "join_save"
    /\ IF t.isNew
       THEN IF InsertAllowed(t.roomId)
            THEN /\ rooms' = [rooms EXCEPT ![t.roomId] = t.room]
                 /\ Goto(h, [t EXCEPT !.pc = "join_emit"])
            ELSE \* E11000 duplicate key: save rejects and the handler ends
                 /\ rooms' = rooms
                 /\ Finish(h)
       ELSE /\ rooms' = IF t.dirty
                        THEN [rooms EXCEPT ![t.roomId].users = Append(@, t.userName)]
                        ELSE rooms
            /\ Goto(h, [t EXCEPT !.pc = "join_emit"])
    /\ emitted' = <<>>
    /\ UNCHANGED <<remarks, currentRoom, currentUser, currentRole,
                   sockRooms, connected, nEvents, lastEvent, net, held,
                   lastWriter, concurrentEdit>>

\* lines 213-215: save has resolved
JoinEmit(h) ==
    LET t == handlers[h] IN
    /\ t.pc = "join_emit"
    /\ emitted' = << Msg("userJoined", Members(t.roomId), t.room.users, "", NoRemark),
                     Msg("codeUpdate", Self(t.conn), <<>>, t.room.code, NoRemark),
                     Msg("languageUpdate", Self(t.conn), <<>>, t.room.language, NoRemark) >>
    /\ Finish(h)
    /\ UNCHANGED <<rooms, remarks, currentRoom, currentUser, currentRole,
                   sockRooms, connected, nEvents, lastEvent, net>>
    /\ held' = Delivered(emitted')
    /\ UNCHANGED <<lastWriter, concurrentEdit>>

\* ------------------------------------------------------------------ languageChange
\* lines 218-220: the role gate and the findOne; a gated event does nothing
LanguageChangeStart(c, roomId, language) ==
    /\ connected[c]
    /\ MayEdit(currentRole[c]) => HasSlot
    /\ IF MayEdit(currentRole[c])
       THEN Start([IdleHandler EXCEPT !.pc = "lang_find", !.conn = c,
                                      !.roomId = roomId, !.val = language,
                                      !.home = currentRoom[c]])
       ELSE handlers' = handlers
    /\ Received("languageChange", c, roomId)
    /\ emitted' = <<>>
    /\ UNCHANGED <<rooms, remarks, currentRoom, currentUser, currentRole,
                   sockRooms, connected, net, held, lastWriter, concurrentEdit>>

\* lines 220-223: findOne answers; no room ends the handler
LanguageChangeFind(h) ==
    LET t == handlers[h]
        found == rooms[t.roomId]
    IN
    /\ t.pc = "lang_find"
    /\ IF found.exists
       THEN Goto(h, [t EXCEPT !.pc = "lang_save",
                              !.room = [found EXCEPT !.language = t.val],
                              !.dirty = found.language # t.val])
       ELSE Finish(h)
    /\ emitted' = <<>>
    /\ UNCHANGED <<rooms, remarks, currentRoom, currentUser, currentRole,
                   sockRooms, connected, nEvents, lastEvent, net, held,
                   lastWriter, concurrentEdit>>

\* line 223, in the store: $set of language when it was modified
LanguageChangeSave(h) ==
    LET t == handlers[h] IN
    /\ t.pc = "lang_save"
    /\ rooms' = IF t.dirty THEN [rooms EXCEPT ![t.roomId].language = t.val] ELSE rooms
    /\ Goto(h, [t EXCEPT !.pc = "lang_emit"])
    /\ emitted' = <<>>
    /\ UNCHANGED <<remarks, currentRoom, currentUser, currentRole,
                   sockRooms, connected, nEvents, lastEvent, net, held,
                   lastWriter, concurrentEdit>>

\* line 224: socket.to(roomId) is the room without the sender
LanguageChangeEmit(h) ==
    LET t == handlers[h] IN
    /\ t.pc = "lang_emit"
    /\ emitted' = << Msg("languageUpdate", Others(t.roomId, t.conn), <<>>, t.val, NoRemark) >>
    /\ Finish(h)
    /\ UNCHANGED <<rooms, remarks, currentRoom, currentUser, currentRole,
                   sockRooms, connected, nEvents, lastEvent, net, held,
                   lastWriter, concurrentEdit>>

\* ------------------------------------------------------------------ codeChange
\* lines 229-231
CodeChangeStart(c, roomId, code) ==
    /\ connected[c]
    /\ MayEdit(currentRole[c]) => HasSlot
    /\ IF MayEdit(currentRole[c])
       THEN Start([IdleHandler EXCEPT !.pc = "code_find", !.conn = c,
                                      !.roomId = roomId, !.val = code,
                                      !.home = currentRoom[c]])
       ELSE handlers' = handlers
    /\ Received("codeChange", c, roomId)
    /\ emitted' = <<>>
    /\ UNCHANGED <<rooms, remarks, currentRoom, currentUser, currentRole,
                   sockRooms, connected, net>>
    /\ held' = IF MayEdit(currentRole[c]) THEN [held EXCEPT ![c] = code] ELSE held
    /\ concurrentEdit' =
          ( \/ concurrentEdit
            \/ /\ MayEdit(currentRole[c])
               /\ \E h \in Handlers :
                     /\ handlers[h].pc \in {"code_find", "code_save", "code_emit"}
                     /\ handlers[h].conn # c
                     /\ handlers[h].roomId = roomId )
    /\ lastWriter' = lastWriter

\* lines 231-234
CodeChangeFind(h) ==
    LET t == handlers[h]
        found == rooms[t.roomId]
    IN
    /\ t.pc = "code_find"
    /\ IF found.exists
       THEN Goto(h, [t EXCEPT !.pc = "code_save",
                              !.room = [found EXCEPT !.code = t.val],
                              !.dirty = found.code # t.val])
       ELSE Finish(h)
    /\ emitted' = <<>>
    /\ UNCHANGED <<rooms, remarks, currentRoom, currentUser, currentRole,
                   sockRooms, connected, nEvents, lastEvent, net, held,
                   lastWriter, concurrentEdit>>

\* line 234, in the store
CodeChangeSave(h) ==
    LET t == handlers[h] IN
    /\ t.pc = "code_save"
    /\ rooms' = IF t.dirty THEN [rooms EXCEPT ![t.roomId].code = t.val] ELSE rooms
    /\ lastWriter' = IF t.dirty THEN [lastWriter EXCEPT ![t.roomId] = t.conn] ELSE lastWriter
    /\ Goto(h, [t EXCEPT !.pc = "code_emit"])
    /\ emitted' = <<>>
    /\ UNCHANGED <<remarks, currentRoom, currentUser, currentRole,
                   sockRooms, connected, nEvents, lastEvent, net, held, concurrentEdit>>

\* line 235
CodeChangeEmit(h) ==
    LET t == handlers[h] IN
    /\ t.pc = "code_emit"
    /\ emitted' = << Msg("codeUpdate", Others(t.roomId, t.conn), <<>>, t.val, NoRemark) >>
    /\ Finish(h)
    /\ UNCHANGED <<rooms, remarks, currentRoom, currentUser, currentRole,
                   sockRooms, connected, nEvents, lastEvent, net>>
    /\ held' = Delivered(emitted')
    /\ UNCHANGED <<lastWriter, concurrentEdit>>

\* ------------------------------------------------------------------ remark:add
\* lines 240-243: the role gate, the new Remark and the call of save
RemarkAddStart(c, roomId, text, line) ==
    /\ connected[c]
    /\ MayRemark(currentRole[c]) => HasSlot
    /\ IF MayRemark(currentRole[c])
       THEN Start([IdleHandler EXCEPT
                     !.pc = "remark_save", !.conn = c, !.roomId = roomId,
                     !.remark = NewRemark(roomId, currentUser[c], currentRole[c], text, line),
                     !.home = currentRoom[c]])
       ELSE handlers' = handlers
    /\ Received("remark:add", c, roomId)
    /\ emitted' = <<>>
    /\ UNCHANGED <<rooms, remarks, currentRoom, currentUser, currentRole,
                   sockRooms, connected, net, held, lastWriter, concurrentEdit>>

\* line 243, in the store
RemarkAddSave(h) ==
    LET t == handlers[h] IN
    /\ t.pc = "remark_save"
    /\ remarks' = Append(remarks, t.remark)
    /\ Goto(h, [t EXCEPT !.pc = "remark_emit"])
    /\ emitted' = <<>>
    /\ UNCHANGED <<rooms, currentRoom, currentUser, currentRole,
                   sockRooms, connected, nEvents, lastEvent, net, held,
                   lastWriter, concurrentEdit>>

\* variant of RemarkAddEmit for C14: socket.to(roomId), as the edits have it
RemarkAddEmitToOthers(h) ==
    LET t == handlers[h] IN
    /\ t.pc = "remark_emit"
    /\ emitted' = << Msg("remark:update", Others(t.roomId, t.conn), <<>>, "", t.remark) >>
    /\ Finish(h)
    /\ UNCHANGED <<rooms, remarks, currentRoom, currentUser, currentRole,
                   sockRooms, connected, nEvents, lastEvent, net, held,
                   lastWriter, concurrentEdit>>
\* line 244
RemarkAddEmit(h) ==
    LET t == handlers[h] IN
    /\ t.pc = "remark_emit"
    /\ emitted' = << Msg("remark:update", Members(t.roomId), <<>>, "", t.remark) >>
    /\ Finish(h)
    /\ UNCHANGED <<rooms, remarks, currentRoom, currentUser, currentRole,
                   sockRooms, connected, nEvents, lastEvent, net, held,
                   lastWriter, concurrentEdit>>

\* ------------------------------------------------------------------ leaveRoom, disconnect
\* variant of InRoom for C15: handleUserExit without its guard
InRoomUnchecked(c) == TRUE
\* line 251: the guard of handleUserExit
InRoom(c) == Truthy(currentRoom[c]) /\ Truthy(currentUser[c])

\* lines 250-257: handleUserExit up to its await; the filter and the update of
\* findOneAndUpdate are built from the closure variables as they are now
ExitStart(name, c) ==
    /\ InRoom(c) => HasSlot
    /\ IF InRoom(c)
       THEN /\ Start([IdleHandler EXCEPT !.pc = "exit_pull", !.conn = c,
                                         !.roomId = currentRoom[c],
                                         !.userName = currentUser[c]])
            /\ net' = [net EXCEPT ![currentRoom[c]][currentUser[c]] = @ - 1]
       ELSE /\ handlers' = handlers
            /\ net' = net
    /\ Received(name, c, currentRoom[c])
    /\ emitted' = <<>>
    /\ UNCHANGED <<rooms, remarks, currentRoom, currentUser, currentRole, held,
                   lastWriter, concurrentEdit>>

\* lines 271-273
LeaveRoom(c) ==
    /\ connected[c]
    /\ ExitStart("leaveRoom", c)
    /\ UNCHANGED <<sockRooms, connected>>

\* lines 275-276: Socket.IO has taken the socket out of all its rooms before
\* the disconnect listeners run; no event follows on this socket
Disconnect(c) ==
    /\ connected[c]
    /\ connected' = [connected EXCEPT ![c] = FALSE]
    /\ sockRooms' = [sockRooms EXCEPT ![c] = {}]
    /\ ExitStart("disconnect", c)

\* variant of PulledRoom for C7: the room is deleted with its last user
PulledRoomDropEmpty(found, userName) ==
    IF found.exists /\ Pull(found.users, userName) # <<>>
    THEN [found EXCEPT !.users = Pull(@, userName)]
    ELSE NoRoom
\* variant of PulledRoom for C13: findOneAndUpdate with {upsert: true}
PulledRoomUpsert(found, userName) ==
    IF found.exists THEN [found EXCEPT !.users = Pull(@, userName)] ELSE NewRoom(<<>>)
\* lines 253-257, in the store: findOneAndUpdate with $pull and {new: true}
PulledRoom(found, userName) ==
    IF found.exists THEN [found EXCEPT !.users = Pull(@, userName)] ELSE NoRoom

ExitPull(h) ==
    LET t == handlers[h] IN
    /\ t.pc = "exit_pull"
    /\ rooms' = [rooms EXCEPT ![t.roomId] = PulledRoom(@, t.userName)]
    /\ Goto(h, [t EXCEPT !.pc = "exit_resume",
                         !.room = PulledRoom(rooms[t.roomId], t.userName)])
    /\ emitted' = <<>>
    /\ UNCHANGED <<remarks, currentRoom, currentUser, currentRole,
                   sockRooms, connected, nEvents, lastEvent, net, held,
                   lastWriter, concurrentEdit>>

\* lines 260-267: currentRoom is read again here, after the await
ExitResume(h) ==
    LET t == handlers[h]
        c == t.conn
    IN
    /\ t.pc = "exit_resume"
    /\ emitted' = IF t.room.exists
                  THEN << Msg("userJoined", Members(currentRoom[c]), t.room.users, "", NoRemark) >>
                  ELSE <<>>
    /\ sockRooms' = [sockRooms EXCEPT ![c] = @ \ {currentRoom[c]}]
    /\ currentRoom' = [currentRoom EXCEPT ![c] = Null]
    /\ currentUser' = [currentUser EXCEPT ![c] = Null]
    /\ currentRole' = [currentRole EXCEPT ![c] = Null]
    /\ Finish(h)
    /\ UNCHANGED <<rooms, remarks, connected, nEvents, lastEvent, net, held,
                   lastWriter, concurrentEdit>>

\* ------------------------------------------------------------------ specification
\* a client event arrives: at most `limit` of them, with roomIds drawn from RS
Event(limit, RS) ==
    \/ \E c \in Conns, r \in RS, u \in UserNames, role \in Roles :
          nEvents < limit /\ JoinStart(c, r, u, role)
    \/ \E c \in Conns, r \in RS, l \in Languages :
          nEvents < limit /\ LanguageChangeStart(c, r, l)
    \/ \E c \in Conns, r \in RS, code \in Codes :
          nEvents < limit /\ CodeChangeStart(c, r, code)
    \/ \E c \in Conns, r \in RS, x \in Texts, n \in Lines :
          nEvents < limit /\ RemarkAddStart(c, r, x, n)
    \/ \E c \in Conns : nEvents < limit /\ LeaveRoom(c)
    \/ \E c \in Conns : nEvents < limit /\ Disconnect(c)

\* the store answers a call
StoreStep(h) ==
    \/ JoinFind(h)
    \/ JoinSave(h)
    \/ LanguageChangeFind(h)
    \/ LanguageChangeSave(h)
    \/ CodeChangeFind(h)
    \/ CodeChangeSave(h)
    \/ RemarkAddSave(h)
    \/ ExitPull(h)

\* a handler resumes after its last await
Resume(h) ==
    \/ JoinEmit(h)
    \/ LanguageChangeEmit(h)
    \/ CodeChangeEmit(h)
    \/ RemarkAddEmit(h)
    \/ ExitResume(h)

\* the awaits of the handlers: a handler at one of these waits for the store
StorePcs == {"join_find", "join_save", "lang_find", "lang_save",
             "code_find", "code_save", "remark_save", "exit_pull"}

\* the store rejects the call a handler awaits (findOne, save or
\* findOneAndUpdate): the await throws, no handler has a try/catch, so the
\* rest of the handler does not run and the store is left as it was
StoreFail(h) ==
    /\ handlers[h].pc \in StorePcs
    /\ Finish(h)
    /\ emitted' = <<>>
    /\ UNCHANGED <<rooms, remarks, currentRoom, currentUser, currentRole,
                   sockRooms, connected, nEvents, lastEvent, net, held,
                   lastWriter, concurrentEdit>>

\* MaxEvents events over both rooms
Next ==
    \/ Event(MaxEvents, RoomIds)
    \/ \E h \in Handlers : StoreStep(h)
    \/ \E h \in Handlers : Resume(h)

Spec == Init /\ [][Next]_vars

\* MaxEventsOneRoom events, all of them about room R1
NextOneRoom ==
    \/ Event(MaxEventsOneRoom, {"R1"})
    \/ \E h \in Handlers : StoreStep(h)
    \/ \E h \in Handlers : Resume(h)

SpecOneRoom == Init /\ [][NextOneRoom]_vars

\* MaxEventsShort events over both rooms
NextShort ==
    \/ Event(MaxEventsShort, RoomIds)
    \/ \E h \in Handlers : StoreStep(h)
    \/ \E h \in Handlers : Resume(h)

SpecShort == Init /\ [][NextShort]_vars

\* MaxEvents events over both rooms, with a store that may reject any call
NextFail ==
    \/ Event(MaxEvents, RoomIds)
    \/ \E h \in Handlers : StoreStep(h)
    \/ \E h \in Handlers : Resume(h)
    \/ \E h \in Handlers : StoreFail(h)

SpecFail == Init /\ [][NextFail]_vars

\* the store answers every call and the event loop runs every continuation
FairSpec ==
    /\ Spec
    /\ \A h \in Handlers : WF_vars(StoreStep(h)) /\ WF_vars(Resume(h))

\* ------------------------------------------------------------------ claims
\* the userNames a room's document lists
UsersOf(r) == IF rooms[r].exists THEN Range(rooms[r].users) ELSE {}

\* C1: once every handler has finished, the users of each room are, as a set,
\* the userNames with more join events than exit events on that room, and the
\* list holds no userName twice.
C1_UsersAreJoinsMinusLeaves ==
    Quiescent =>
        \A r \in RoomIds :
            /\ UsersOf(r) = {u \in UserNames : net[r][u] > 0}
            /\ NoDuplicates(rooms[r].users)

\* C2: when the only two events so far are joins of the same room by the two
\* connections under distinct userNames, then once both handlers have finished
\* the room exists and its users hold both userNames.
C2_ConcurrentJoinsKeepBoth ==
    \A r \in RoomIds :
        ( /\ Quiescent
          /\ nEvents = 2
          /\ currentRoom["A"] = r /\ currentRoom["B"] = r
          /\ currentUser["A"] # currentUser["B"] )
        => /\ rooms[r].exists
           /\ {currentUser["A"], currentUser["B"]} \subseteq UsersOf(r)

\* C3: no room lists a userName twice, and no userJoined list does.
C3_NoDuplicateUsers ==
    /\ \A r \in RoomIds : NoDuplicates(rooms[r].users)
    /\ \A i \in 1..Len(emitted) :
           emitted[i].event = "userJoined" => NoDuplicates(emitted[i].users)

EditPcs == {"lang_find", "lang_save", "lang_emit", "code_find", "code_save", "code_emit"}

\* C4: a languageChange or codeChange of a session whose role is neither
\* "Developer" nor "Admin" starts no handler, changes no room and emits nothing;
\* a handler that edits starts only for a session holding one of these roles,
\* and the code or language of a room changes, or a codeUpdate or languageUpdate
\* goes to other connections, only in a step of such a handler.
C4_RoleGateOnEdits ==
    [][ /\ \A c \in Conns, r \in RoomIds :
              ( /\ currentRole[c] \notin {"Developer", "Admin"}
                /\ \/ \E l \in Languages : LanguageChangeStart(c, r, l)
                   \/ \E code \in Codes : CodeChangeStart(c, r, code) )
              => /\ rooms' = rooms
                 /\ handlers' = handlers
                 /\ emitted' = <<>>
        /\ \A h \in Handlers :
              (handlers[h].pc \notin EditPcs /\ handlers'[h].pc \in EditPcs)
              => currentRole[handlers'[h].conn] \in {"Developer", "Admin"}
        /\ \A r \in RoomIds :
              ( /\ rooms[r].exists
                /\ \/ rooms'[r].code # rooms[r].code
                   \/ rooms'[r].language # rooms[r].language )
              => \E h \in Handlers : /\ handlers[h].pc \in {"lang_save", "code_save"}
                                     /\ handlers[h].roomId = r
                                     /\ handlers'[h].pc \in {"lang_emit", "code_emit"}
        /\ \A i \in 1..Len(emitted') :
              ( /\ emitted'[i].event \in {"codeUpdate", "languageUpdate"}
                /\ ~\E h \in Handlers : handlers[h].pc = "join_emit" /\ Idle(h)' )
              => \E h \in Handlers : /\ handlers[h].pc \in {"lang_emit", "code_emit"}
                                     /\ Idle(h)'
      ]_vars

\* a Tester session has sent an edit of its room, which exists, and nothing came of it
C4_Witness ==
    /\ lastEvent.name \in {"codeChange", "languageChange"}
    /\ currentRole[lastEvent.conn] = "Tester"
    /\ currentRoom[lastEvent.conn] = lastEvent.roomId
    /\ rooms[lastEvent.roomId].exists
    /\ Quiescent

\* C5: every Remark, in the collection, about to be saved or carried by a
\* remark:update, records the role "Tester", the role its session held when it
\* sent remark:add: a session with another role (or none) creates no Remark
\* and causes no remark:update.
C5_RoleGateOnRemarks ==
    /\ \A i \in 1..Len(remarks) : remarks[i].role = "Tester"
    /\ \A h \in Handlers :
          handlers[h].pc \in {"remark_save", "remark_emit"} => handlers[h].remark.role = "Tester"
    /\ \A i \in 1..Len(emitted) :
          emitted[i].event = "remark:update" => emitted[i].remark.role = "Tester"

\* a Developer session has sent remark:add for its room and no Remark exists
C5_Witness ==
    /\ lastEvent.name = "remark:add"
    /\ currentRole[lastEvent.conn] = "Developer"
    /\ currentRoom[lastEvent.conn] = lastEvent.roomId
    /\ rooms[lastEvent.roomId].exists
    /\ remarks = <<>>
    /\ Quiescent

\* C6: once the save of a codeChange is acknowledged its handler eventually
\* emits, and what it emits is one codeUpdate carrying the submitted code, to
\* connections in that room only, among them every other connected session
\* whose room it is, and never to the sender.
C6_CodeUpdateReachesOthers ==
    /\ \A h \in Handlers : (handlers[h].pc = "code_emit") ~> Idle(h)
    /\ [][ \A h \in Handlers :
              (handlers[h].pc = "code_emit" /\ handlers'[h].pc # "code_emit")
              => /\ Len(emitted') = 1
                 /\ emitted'[1].event = "codeUpdate"
                 /\ emitted'[1].val = handlers[h].val
                 /\ handlers[h].conn \notin emitted'[1].to
                 /\ emitted'[1].to \subseteq {d \in Conns : handlers[h].roomId \in sockRooms[d]}
                 /\ \A d \in Conns \ {handlers[h].conn} :
                       (connected[d] /\ currentRoom[d] = handlers[h].roomId)
                       => d \in emitted'[1].to
         ]_vars

\* the other connection, joined to the sender's room, has just been sent the
\* code the sender submitted and stored
C6_Witness ==
    /\ Len(emitted) = 1
    /\ emitted[1].event = "codeUpdate"
    /\ emitted[1].val \in Codes
    /\ \E c, d \in Conns :
          /\ c # d
          /\ emitted[1].to = {d}
          /\ currentRoom[c] = currentRoom[d]
          /\ Truthy(currentRoom[c])
          /\ rooms[currentRoom[c]].code = emitted[1].val
          /\ lastEvent = [name |-> "codeChange", conn |-> c, roomId |-> currentRoom[c]]

\* C7: an exit never deletes a room nor changes its code or language, however
\* few users remain; a join of an existing room loads the code and language
\* stored at that moment, its save changes neither, and the codeUpdate and
\* languageUpdate it sends to the joiner carry the loaded values.
C7_RejoinPreservesState ==
    [][ \A h \in Handlers :
          LET t == handlers[h]
              Kept == \A r \in RoomIds :
                          rooms[r].exists => /\ rooms'[r].exists
                                             /\ rooms'[r].code = rooms[r].code
                                             /\ rooms'[r].language = rooms[r].language
          IN
          /\ (t.pc = "exit_pull" /\ handlers'[h].pc # "exit_pull") => Kept
          /\ (t.pc = "join_find" /\ handlers'[h].pc # "join_find" /\ rooms[t.roomId].exists)
             => /\ handlers'[h].room.code = rooms[t.roomId].code
                /\ handlers'[h].room.language = rooms[t.roomId].language
          /\ (t.pc = "join_save" /\ handlers'[h].pc # "join_save")
             => /\ Kept
                /\ handlers'[h].pc = "join_emit" => handlers'[h].room = t.room
          /\ (t.pc = "join_emit" /\ handlers'[h].pc # "join_emit")
             => /\ Len(emitted') = 3
                /\ emitted'[2].event = "codeUpdate"
                /\ emitted'[2].val = t.room.code
                /\ emitted'[3].event = "languageUpdate"
                /\ emitted'[3].val = t.room.language
      ]_vars

\* join, codeChange, exit, join: the room was left empty, and the connection
\* that joins it afterwards is sent the code written before
C7_Witness ==
    /\ Quiescent
    /\ nEvents = 4
    /\ lastEvent.name = "join"
    /\ Len(emitted) = 3
    /\ emitted[1].users = rooms["R1"].users
    /\ Len(emitted[1].users) = 1
    /\ \A u \in UserNames : net["R1"][u] = IF u = emitted[1].users[1] THEN 1 ELSE 0
    /\ emitted[2].event = "codeUpdate"
    /\ emitted[2].to = {lastEvent.conn}
    /\ emitted[2].val \in Codes
    /\ emitted[2].val = rooms["R1"].code

\* C8: a join emits three messages in this order: userJoined, carrying a list
\* that includes the joiner's userName, to every connection in the room, the
\* joiner (if still connected) among them; then codeUpdate and languageUpdate
\* to the joining connection alone.
C8_JoinEmissions ==
    [][ \A h \in Handlers :
          LET t == handlers[h] IN
          (t.pc = "join_emit" /\ handlers'[h].pc # "join_emit")
          => /\ Len(emitted') = 3
             /\ emitted'[1].event = "userJoined"
             /\ Includes(emitted'[1].users, t.userName)
             /\ emitted'[1].to = {d \in Conns : t.roomId \in sockRooms[d]}
             /\ connected[t.conn] => t.conn \in emitted'[1].to
             /\ emitted'[2].event = "codeUpdate"
             /\ emitted'[2].val = t.room.code
             /\ emitted'[2].to = (IF connected[t.conn] THEN {t.conn} ELSE {})
             /\ emitted'[3].event = "languageUpdate"
             /\ emitted'[3].val = t.room.language
             /\ emitted'[3].to = (IF connected[t.conn] THEN {t.conn} ELSE {})
      ]_vars

\* C9: the exit of a session removes its userName from the users of its room;
\* when the handler resumes, the room's remaining members are sent a
\* userJoined without that userName, the connection is out of the room it
\* left, and currentRoom, currentUser and currentRole are cleared.
C9_ExitRemovesAndNotifies ==
    [][ \A h \in Handlers :
          LET t == handlers[h] IN
          /\ (t.pc = "exit_pull" /\ handlers'[h].pc # "exit_pull")
             => ~Includes(rooms'[t.roomId].users, t.userName)
          /\ (t.pc = "exit_resume" /\ handlers'[h].pc # "exit_resume")
             => /\ currentRoom'[t.conn] = Null
                /\ currentUser'[t.conn] = Null
                /\ currentRole'[t.conn] = Null
                /\ t.roomId \notin sockRooms'[t.conn]
                /\ t.room.exists
                   => /\ Len(emitted') = 1
                      /\ emitted'[1].event = "userJoined"
                      /\ ~Includes(emitted'[1].users, t.userName)
                      /\ \A d \in Conns \ {t.conn} :
                            (connected[d] /\ currentRoom[d] = t.roomId)
                            => d \in emitted'[1].to
      ]_vars

\* C10: when the only events so far are a join and the disconnect of the same
\* connection, then once its handlers have finished no room lists a user.
C10_DisconnectCleansUp ==
    \A c \in Conns :
        ( /\ Quiescent
          /\ nEvents = 2
          /\ ~connected[c]
          /\ \A r \in RoomIds, u \in UserNames : net[r][u] = 0 )
        => \A r \in RoomIds : UsersOf(r) = {}

\* the positions from which a handler emits
EmitPcs == {"join_emit", "lang_emit", "code_emit", "remark_emit", "exit_resume"}

\* C11: a handler emits only after the store acknowledged its call, and what
\* it emits is state the store held by then: what its write stored (the users
\* of a join that inserted or pushed, the code or language of an edit that
\* changed it, the Remark, the pulled users list of an exit) or what it read
\* from the store and did not write; a handler whose store call fails ends
\* and emits nothing.
C11_BroadcastAfterDurableWrite ==
    [][ /\ emitted' # <<>>
           => \E h \in Handlers : handlers[h].pc \in EmitPcs /\ Idle(h)'
        /\ \A h \in Handlers :
              LET t == handlers[h]
                  u == handlers'[h]
              IN
              /\ (u.pc \in EmitPcs /\ t.pc # u.pc) => t.pc \in StorePcs
              /\ (t.pc \in StorePcs /\ u.pc = "idle") => emitted' = <<>>
              /\ (t.pc = "join_find" /\ u.pc = "join_save" /\ rooms[t.roomId].exists)
                 => /\ u.room.code = rooms[t.roomId].code
                    /\ u.room.language = rooms[t.roomId].language
                    /\ ~u.dirty => u.room.users = rooms[t.roomId].users
              /\ (t.pc = "join_save" /\ u.pc = "join_emit" /\ (t.isNew \/ t.dirty))
                 => /\ rooms'[t.roomId].exists
                    /\ rooms'[t.roomId].users = u.room.users
                    /\ t.isNew => /\ rooms'[t.roomId].code = u.room.code
                                  /\ rooms'[t.roomId].language = u.room.language
              /\ (t.pc = "code_find" /\ u.pc = "code_save" /\ ~u.dirty)
                 => rooms[t.roomId].code = u.val
              /\ (t.pc = "code_save" /\ u.pc = "code_emit" /\ t.dirty)
                 => rooms'[t.roomId].code = u.val
              /\ (t.pc = "lang_find" /\ u.pc = "lang_save" /\ ~u.dirty)
                 => rooms[t.roomId].language = u.val
              /\ (t.pc = "lang_save" /\ u.pc = "lang_emit" /\ t.dirty)
                 => rooms'[t.roomId].language = u.val
              /\ (t.pc = "remark_save" /\ u.pc = "remark_emit")
                 => /\ Len(remarks') = Len(remarks) + 1
                    /\ remarks'[Len(remarks')] = u.remark
              /\ (t.pc = "exit_pull" /\ u.pc = "exit_resume")
                 => u.room = rooms'[t.roomId]
              /\ (t.pc = "join_emit" /\ u.pc = "idle")
                 => /\ Len(emitted') = 3
                    /\ emitted'[1].users = t.room.users
                    /\ emitted'[2].val = t.room.code
                    /\ emitted'[3].val = t.room.language
              /\ (t.pc = "code_emit" /\ u.pc = "idle")
                 => Len(emitted') = 1 /\ emitted'[1].val = t.val
              /\ (t.pc = "lang_emit" /\ u.pc = "idle")
                 => Len(emitted') = 1 /\ emitted'[1].val = t.val
              /\ (t.pc = "remark_emit" /\ u.pc = "idle")
                 => Len(emitted') = 1 /\ emitted'[1].remark = t.remark
              /\ (t.pc = "exit_resume" /\ u.pc = "idle" /\ emitted' # <<>>)
                 => Len(emitted') = 1 /\ emitted'[1].users = t.room.users
      ]_vars

\* C12: when the store rejects the call a handler awaits (any call, or the
\* insert of a room that exists by then), that step sends a message, every
\* message of the step goes to no connection but the one whose event the
\* handler serves, and that connection, if still connected, gets one.
C12_FailureReportedToOriginator ==
    [][ \A h \in Handlers :
          LET t == handlers[h] IN
          ( \/ StoreFail(h)
            \/ /\ t.pc = "join_save" /\ t.isNew /\ ~InsertAllowed(t.roomId)
               /\ JoinSave(h) )
          => /\ emitted' # <<>>
             /\ \A i \in 1..Len(emitted') : emitted'[i].to \subseteq {t.conn}
             /\ connected[t.conn] => \E i \in 1..Len(emitted') : t.conn \in emitted'[i].to
      ]_vars

\* C13: when the store answers the findOne of a codeChange or languageChange,
\* or the findOneAndUpdate of a leaveRoom or disconnect, and holds no Room
\* under the roomId asked for, no Room is created, neither collection
\* changes and nothing is emitted, in that step and in what is left of the
\* handler: an edit ends there, an exit resumes with no document and emits
\* nothing.
C13_RoomNotFoundIsNoOp ==
    [][ \A h \in Handlers :
          LET t == handlers[h]
              u == handlers'[h]
              Untouched == rooms' = rooms /\ remarks' = remarks /\ emitted' = <<>>
          IN
          /\ (t.pc \in {"code_find", "lang_find"} /\ u.pc # t.pc /\ ~rooms[t.roomId].exists)
             => Untouched /\ u.pc = "idle"
          /\ (t.pc = "exit_pull" /\ u.pc # t.pc /\ ~rooms[t.roomId].exists)
             => Untouched /\ u.pc = "exit_resume" /\ ~u.room.exists
          /\ (t.pc = "exit_resume" /\ u.pc # t.pc /\ ~t.room.exists)
             => Untouched
      ]_vars

\* a Developer or Admin session has sent an edit for a roomId that has no
\* Room; its handler has run and there is still no such Room
C13_Witness ==
    /\ lastEvent.name \in {"codeChange", "languageChange"}
    /\ MayEdit(currentRole[lastEvent.conn])
    /\ ~rooms[lastEvent.roomId].exists
    /\ \E r \in RoomIds : rooms[r].exists
    /\ Quiescent

\* C14: a remark:add of a session whose role is "Tester" starts one handler
\* holding a Remark with the payload's roomId, text and line, the session's
\* userName and role, and resolved false; the handler's save appends that
\* Remark, once, and nothing else ever changes the collection; the handler
\* then eventually emits one remark:update carrying the Remark to every
\* connection in the Socket.IO room of that roomId, which includes every
\* connected session whose room it is, the author among them.
C14_RemarkCreatedAndDelivered ==
    /\ \A h \in Handlers : (handlers[h].pc = "remark_save") ~> Idle(h)
    /\ [][ /\ \A c \in Conns, r \in RoomIds, x \in Texts, n \in Lines :
                 (currentRole[c] = "Tester" /\ RemarkAddStart(c, r, x, n))
                 => \E h \in Handlers :
                       /\ handlers[h].pc = "idle"
                       /\ handlers'[h].pc = "remark_save"
                       /\ handlers'[h].conn = c
                       /\ handlers'[h].remark =
                             [roomId |-> r, userName |-> currentUser[c], role |-> "Tester",
                              text |-> x, line |-> n, resolved |-> FALSE]
                       /\ \A g \in Handlers \ {h} : handlers'[g] = handlers[g]
           /\ remarks' # remarks
              => \E h \in Handlers : handlers[h].pc = "remark_save" /\ ~Idle(h)'
           /\ \A h \in Handlers :
                 LET t == handlers[h]
                     u == handlers'[h]
                 IN
                 /\ (t.pc = "remark_save" /\ u.pc # t.pc)
                    => /\ remarks' = Append(remarks, t.remark)
                       /\ u.pc = "remark_emit"
                       /\ u.remark = t.remark
                 /\ (t.pc = "remark_emit" /\ u.pc # t.pc)
                    => /\ Len(emitted') = 1
                       /\ emitted'[1].event = "remark:update"
                       /\ emitted'[1].remark = t.remark
                       /\ emitted'[1].to = {d \in Conns : t.roomId \in sockRooms[d]}
                       /\ \A d \in Conns :
                             (connected[d] /\ currentRoom[d] = t.roomId)
                             => d \in emitted'[1].to
         ]_vars

\* the Tester of a room of two has sent remark:add for it: the Remark is the
\* only one stored and both connections, the author too, have just been sent it
C14_Witness ==
    /\ Len(emitted) = 1
    /\ emitted[1].event = "remark:update"
    /\ emitted[1].to = Conns
    /\ remarks = << emitted[1].remark >>
    /\ lastEvent.name = "remark:add"
    /\ currentRoom[lastEvent.conn] = lastEvent.roomId
    /\ currentRole[lastEvent.conn] = "Tester"
    /\ emitted[1].remark = NewRemark(lastEvent.roomId, currentUser[lastEvent.conn],
                                     "Tester", "check this", 1)
    /\ \A d \in Conns : currentRoom[d] = lastEvent.roomId

\* the session state Unjoined: no room, userName or role is bound
Unjoined(c) ==
    currentRoom[c] = Null /\ currentUser[c] = Null /\ currentRole[c] = Null

\* C15: a leaveRoom or disconnect of a session that is Unjoined (it never
\* joined, or its exit has completed) starts no handler, so no store call
\* follows, changes neither collection, emits nothing and leaves the session
\* Unjoined.
C15_ExitOfUnjoinedIsNoOp ==
    [][ \A c \in Conns :
          (Unjoined(c) /\ (LeaveRoom(c) \/ Disconnect(c)))
          => /\ handlers' = handlers
             /\ rooms' = rooms
             /\ remarks' = remarks
             /\ emitted' = <<>>
             /\ Unjoined(c)'
      ]_vars

\* join, leaveRoom, and, once that exit has completed, an exit event again:
\* the room is empty, nothing is in flight and the session is Unjoined
C15_Witness ==
    /\ nEvents = 3
    /\ lastEvent.name \in {"leaveRoom", "disconnect"}
    /\ lastEvent.conn \in Conns
    /\ Unjoined(lastEvent.conn)
    /\ sockRooms[lastEvent.conn] = {}
    /\ \E r \in RoomIds : rooms[r].exists /\ rooms[r].users = <<>>
    /\ \A d \in Conns \ {lastEvent.conn} : connected[d] /\ held[d] = Null /\ sockRooms[d] = {}
    /\ \A r \in RoomIds, u \in UserNames : net[r][u] = 0
    /\ Quiescent
    /\ emitted = <<>>

\* the rooms whose users list is not empty
RoomsWithUsers == {r \in RoomIds : rooms[r].exists /\ rooms[r].users # <<>>}

\* C16: no socket is in more than one Socket.IO room, so that a connection
\* gets the broadcasts of at most one room; and when the only events so far
\* are two joins of one connection, the other connection never having joined,
\* at most one room lists a user.
C16_OneRoomAtATime ==
    /\ \A c \in Conns : Cardinality(sockRooms[c]) <= 1
    /\ \A c \in Conns :
          ( /\ nEvents = 2
            /\ lastEvent = [name |-> "join", conn |-> c, roomId |-> currentRoom[c]]
            /\ \A u \in UserNames : net[currentRoom[c]][u] = IF u = currentUser[c] THEN 1 ELSE 0
            /\ \E r \in RoomIds \ {currentRoom[c]} : \E u \in UserNames : net[r][u] = 1
            /\ \A d \in Conns \ {c} : Unjoined(d) /\ sockRooms[d] = {} )
          => Cardinality(RoomsWithUsers) <= 1

\* C17: a Room comes into being only in the save of a join handler for its
\* roomId; a join handler whose save the store has answered leaves a Room
\* under its roomId, so that once nothing is in flight every roomId with more
\* joins than exits for some userName has a Room; an existing Room is never
\* deleted; its code changes only in the save of a codeChange and its
\* language only in the save of a languageChange, so that an exit, also one
\* that empties users, leaves both as they were.
C17_RoomExistsIffJoined ==
    /\ [](Quiescent => \A r \in RoomIds :
                          (\E u \in UserNames : net[r][u] > 0) => rooms[r].exists)
    /\ [][ /\ \A r \in RoomIds :
                 /\ (~rooms[r].exists /\ rooms'[r].exists)
                    => \E h \in Handlers : /\ handlers[h].pc = "join_save"
                                           /\ handlers[h].roomId = r
                                           /\ handlers'[h].pc = "join_emit"
                 /\ rooms[r].exists
                    => /\ rooms'[r].exists
                       /\ rooms'[r].code # rooms[r].code
                          => \E h \in Handlers : /\ handlers[h].pc = "code_save"
                                                 /\ handlers[h].roomId = r
                                                 /\ handlers'[h].pc = "code_emit"
                       /\ rooms'[r].language # rooms[r].language
                          => \E h \in Handlers : /\ handlers[h].pc = "lang_save"
                                                 /\ handlers[h].roomId = r
                                                 /\ handlers'[h].pc = "lang_emit"
           /\ \A h \in Handlers :
                 (handlers[h].pc = "join_save" /\ handlers'[h].pc # "join_save")
                 => rooms'[handlers[h].roomId].exists
         ]_vars

\* join, codeChange, exit: the room's last user has gone and the room is
\* there, empty, with the code that was written
C17_Witness ==
    /\ Quiescent
    /\ nEvents = 3
    /\ lastEvent.name \in {"leaveRoom", "disconnect"}
    /\ \E r \in RoomIds :
          /\ rooms[r].exists
          /\ rooms[r].users = <<>>
          /\ rooms[r].code \in Codes
          /\ rooms[r].language = "javascript"
          /\ \A u \in UserNames : net[r][u] = 0

\* C18: the handler of a codeChange, languageChange or remark:add whose
\* payload roomId is not the room its session was joined to when the event
\* arrived changes no Room under that roomId, adds no Remark and sends its
\* update to no connection.
C18_EventsStayInSessionRoom ==
    [][ \A h \in Handlers :
          LET t == handlers[h] IN
          ( /\ t.pc \in {"code_save", "lang_save", "remark_save",
                         "code_emit", "lang_emit", "remark_emit"}
            /\ handlers'[h].pc # t.pc
            /\ t.home # t.roomId )
          => /\ rooms'[t.roomId] = rooms[t.roomId]
             /\ remarks' = remarks
             /\ \A i \in 1..Len(emitted') : emitted'[i].to = {}
      ]_vars

\* C19: when the events so far are the joins of the two connections to one
\* room, both holding an editing role, and one codeChange of each for that
\* room, the second accepted while the handler of the first was in flight,
\* then once every handler has finished each of the two connections holds
\* the code stored in the Room.
C19_ConcurrentEditsConverge ==
    \A r \in RoomIds :
        ( /\ Quiescent
          /\ concurrentEdit
          /\ nEvents = 4
          /\ lastEvent.name = "codeChange" /\ lastEvent.roomId = r
          /\ \A c \in Conns : /\ connected[c]
                               /\ currentRoom[c] = r
                               /\ sockRooms[c] = {r}
                               /\ MayEdit(currentRole[c]) )
        => \A c \in Conns : held[c] = rooms[r].code

\* C20: when a join handler sends its unicast and the Room's code is no
\* longer the code the handler read, the change having been stored by the
\* codeChange of another connection whose handler has finished (no
\* codeChange for the room is in flight), then the joining connection, if
\* connected, holds the Room's stored code once the unicast is delivered.
C20_JoinHydrationNotStale ==
    [][ \A h \in Handlers :
          LET t == handlers[h]
              r == t.roomId
          IN
          ( /\ t.pc = "join_emit"
            /\ handlers'[h].pc # "join_emit"
            /\ connected[t.conn]
            /\ rooms[r].code # t.room.code
            /\ lastWriter[r] \notin {Null, t.conn}
            /\ \A g \in Handlers :
                  handlers[g].pc \in {"code_find", "code_save", "code_emit"}
                  => handlers[g].roomId # r )
          => held'[t.conn] = rooms'[r].code
      ]_vars
====
